---- MODULE Spec2Model ----
(***************************************************************************)
(* DocuMind: the retrieval engine (src/rag_engine.py), its vector store    *)
(* (src/vector_store.py) and the document processor                        *)
(* (src/document_processor.py).                                            *)
(*                                                                         *)
(* Texts are sequences of symbols.  " " and "\n" are whitespace, "." "!"   *)
(* "?" are sentence terminators, "a" is one ordinary character and "W" is  *)
(* a run of RunLen ordinary characters (no whitespace, no terminator), so  *)
(* that texts longer than the processor's chunk_size of 500 characters     *)
(* stay small.  Lengths are measured in characters.                        *)
(*                                                                         *)
(* Scores, distances and min_score are in tenths (10 is 1.0).              *)
(***************************************************************************)
EXTENDS Integers, Sequences, FiniteSets, TLC

\* ---------------------------------------------------------------- bounds
MaxTopK == 2         \* largest top_k a query asks for
RunLen == 300        \* characters the symbol "W" stands for
MaxTextLen == 7      \* longest text handed to the chunker on its own
MaxChunkSize == 4    \* largest chunk_size the chunker is run with
MaxSentences == 4    \* most '.'-separated pieces of a chunk answered from

\* ------------------------------------------------------ program constants
chunk_size == 500
chunk_overlap == 50

\* ------------------------------------------------------------------ text
Width(c) == IF c = "W" THEN RunLen ELSE 1

RECURSIVE TextLen(_)
TextLen(s) == IF s = <<>> THEN 0 ELSE Width(Head(s)) + TextLen(Tail(s))

IsSpace(c) == c \in {" ", "\n"}

IsTerminator(c) == c \in {".", "!", "?"}

RECURSIVE SkipSpaces(_)
SkipSpaces(s) ==
    IF s # <<>> /\ IsSpace(Head(s)) THEN SkipSpaces(Tail(s)) ELSE s

\* re.sub(r'\s+', ' ', text)
RECURSIVE CollapseSpaces(_)
CollapseSpaces(s) ==
    IF s = <<>> THEN <<>>
    ELSE IF IsSpace(Head(s)) THEN <<" ">> \o CollapseSpaces(SkipSpaces(s))
    ELSE <<Head(s)>> \o CollapseSpaces(Tail(s))

RECURSIVE DropTrailingSpaces(_)
DropTrailingSpaces(s) ==
    IF s # <<>> /\ IsSpace(s[Len(s)])
    THEN DropTrailingSpaces(SubSeq(s, 1, Len(s) - 1))
    ELSE s

\* str.strip()
Strip(s) == DropTrailingSpaces(SkipSpaces(s))

\* ' '.join(parts)
RECURSIVE Join(_)
Join(parts) ==
    IF parts = <<>> THEN <<>>
    ELSE IF Len(parts) = 1 THEN parts[1]
    ELSE parts[1] \o <<" ">> \o Join(Tail(parts))

\* re.split(r'(?<=[.!?])\s+', text): cur is the unit being read, prev the
\* character before s
RECURSIVE SplitFrom(_, _, _)
SplitFrom(s, cur, prev) ==
    IF s = <<>> THEN <<cur>>
    ELSE IF IsSpace(Head(s)) /\ IsTerminator(prev)
         THEN <<cur>> \o SplitFrom(SkipSpaces(s), <<>>, " ")
         ELSE SplitFrom(Tail(s), Append(cur, Head(s)), Head(s))

SplitSentences(s) == SplitFrom(s, <<>>, "")

\* the while loop of chunk_text: pop units from the front until the joined
\* rest is at most overlap characters long
RECURSIVE KeepOverlap(_, _)
KeepOverlap(current_chunk, overlap) ==
    IF TextLen(Join(current_chunk)) > overlap /\ current_chunk # <<>>
    THEN KeepOverlap(Tail(current_chunk), overlap)
    ELSE current_chunk

\* the for loop of chunk_text over the remaining sentences
RECURSIVE ChunkLoop(_, _, _, _, _, _)
ChunkLoop(sentences, chunks, current_chunk, current_length, size, overlap) ==
    IF sentences = <<>>
    THEN IF current_chunk # <<>> THEN Append(chunks, Join(current_chunk))
                                 ELSE chunks
    ELSE LET sentence == Head(sentences)
             sentence_length == TextLen(sentence)
             flush == current_length + sentence_length > size
                        /\ current_chunk # <<>>
             kept == IF flush THEN KeepOverlap(current_chunk, overlap)
                              ELSE current_chunk
             len0 == IF flush THEN TextLen(Join(kept)) ELSE current_length
         IN  ChunkLoop(Tail(sentences),
                       IF flush THEN Append(chunks, Join(current_chunk))
                                ELSE chunks,
                       Append(kept, sentence),
                       len0 + sentence_length + 1,
                       size, overlap)

Normalize(text) == Strip(CollapseSpaces(text))

\* variant: the buffer is shrunk to chunk_size, not to chunk_overlap
chunk_text_sized_overlap_is_size(text, size, overlap) ==
    LET t == Normalize(text)
    IN  IF TextLen(t) <= size
        THEN IF t # <<>> THEN <<t>> ELSE <<>>
        ELSE ChunkLoop(SplitSentences(t), <<>>, <<>>, 0, size, size)

\* variant: the buffer left after the last unit is never flushed
chunk_text_sized_no_final_flush(text, size, overlap) ==
    LET t == Normalize(text)
        flushed == ChunkLoop(SplitSentences(t), <<>>, <<>>, 0, size, overlap)
    IN  IF TextLen(t) <= size
        THEN IF t # <<>> THEN <<t>> ELSE <<>>
        ELSE SubSeq(flushed, 1, Len(flushed) - 1)

chunk_text_sized(text, size, overlap) ==
    LET t == Normalize(text)
    IN  IF TextLen(t) <= size
        THEN IF t # <<>> THEN <<t>> ELSE <<>>
        ELSE ChunkLoop(SplitSentences(t), <<>>, <<>>, 0, size, overlap)

chunk_text(text) == chunk_text_sized(text, chunk_size, chunk_overlap)

\* ------------------------------------------------------------ extraction
\* A filename is the sequence of its parts between the dots.
Filenames ==
    { <<"notes", "txt">>, <<"Page", "HTM">>, <<"tool", "exe">>, <<"README">> }

\* str.lower() on the parts that occur
Lower(s) ==
    CASE s = "HTM" -> "htm"
      [] s = "Page" -> "page"
      [] s = "README" -> "readme"
      [] s = "A" -> "a"
      [] OTHER -> s

\* filename.lower().split('.')[-1]
Extension(filename) == Lower(filename[Len(filename)])

\* the extensions extract_text hands to a parser (PyPDF2, python-docx,
\* BeautifulSoup), which may fail on the content
ParsedExtensions == {"pdf", "docx", "html", "htm"}

\* extract_text taking a file of unknown extension for plain text
extract_text_default_txt(content, filename, env) ==
    LET ext == Extension(filename)
    IN  IF ext \in ParsedExtensions
        THEN [raised |-> env.fault = "parser",
              error |-> IF env.fault = "parser" THEN "ExtractionFailure"
                                                ELSE "none",
              text |-> IF env.fault = "parser" THEN <<>> ELSE content,
              doc_type |-> IF ext = "htm" THEN "html" ELSE ext]
        ELSE [raised |-> FALSE, error |-> "none",
              text |-> content, doc_type |-> "txt"]

\* extract_text.  The content stands for the text it encodes; env.fault =
\* "parser" when the format's parser fails on it.
extract_text(content, filename, env) ==
    LET ext == Extension(filename)
        parse(t) == IF env.fault = "parser"
                    THEN [raised |-> TRUE, error |-> "ExtractionFailure",
                          text |-> <<>>, doc_type |-> t]
                    ELSE [raised |-> FALSE, error |-> "none",
                          text |-> content, doc_type |-> t]
    IN  IF ext = "pdf" THEN parse("pdf")
        ELSE IF ext = "docx" THEN parse("docx")
        ELSE IF ext = "txt" THEN [raised |-> FALSE, error |-> "none",
                                  text |-> content, doc_type |-> "txt"]
        ELSE IF ext \in {"html", "htm"} THEN parse("html")
        ELSE [raised |-> TRUE, error |-> "UnsupportedFormat",
              text |-> <<>>, doc_type |-> "none"]

\* ------------------------------------------------------------ embeddings
\* Embeddings are unit vectors at 0, 90, 180 and 270 degrees.
Vectors == 0 .. 3

\* The embedding model: a fixed function of the text.
embed_text(text) ==
    IF text = <<>> THEN 3
    ELSE CASE text[Len(text)] = "." -> 0
           [] text[Len(text)] = "!" -> 1
           [] text[Len(text)] = "?" -> 2
           [] OTHER -> 3

embed_batch(texts) == [i \in 1 .. Len(texts) |-> embed_text(texts[i])]

\* cosine distance of two of the vectors, in tenths
CosineDistance(a, b) ==
    LET k == (a - b) % 4
    IN  IF k = 0 THEN 0 ELSE IF k = 2 THEN 20 ELSE 10

\* ---------------------------------------------------------- vector store
\* The Chroma collection is the set of its entries; an entry is
\* [id, embedding, document, metadata].
Min(a, b) == IF a < b THEN a ELSE b

\* collection.add: a record whose id is already stored is skipped
collection_add(coll, records) ==
    coll \cup { records[i] : i \in { j \in 1 .. Len(records) :
                                     \A e \in coll : e.id # records[j].id } }

\* VectorStore.add_document.  env.fault = "add": collection.add fails,
\* after it has stored the first env.k records of the batch.
VectorStore_add_document(coll, doc_id, chunks, embeddings, metadata, env) ==
    LET records == [i \in 1 .. Len(chunks) |->
                      [id |-> <<doc_id, i - 1>>,
                       embedding |-> embeddings[i],
                       document |-> chunks[i],
                       metadata |-> [filename |-> metadata.filename,
                                     doc_type |-> metadata.doc_type,
                                     chunk_index |-> i - 1,
                                     document_id |-> doc_id]]]
    IN  IF env.fault = "add"
        THEN [raised |-> TRUE,
              collection |->
                  collection_add(coll,
                                 SubSeq(records, 1, Min(env.k, Len(chunks)))),
              count |-> 0]
        ELSE [raised |-> FALSE,
              collection |-> collection_add(coll, records),
              count |-> Len(chunks)]

\* collection.get(where={"document_id": doc_id})['ids']
collection_get_ids(coll, doc_id) ==
    { e.id : e \in { x \in coll : x.metadata.document_id = doc_id } }

\* collection.delete(ids=ids)
collection_delete(coll, ids) == { e \in coll : e.id \notin ids }

\* VectorStore.delete_document removing one entry of the document only
VectorStore_delete_document_one(coll, doc_id, env) ==
    IF env.fault = "get"
    THEN [raised |-> TRUE, collection |-> coll, found |-> FALSE]
    ELSE LET ids == collection_get_ids(coll, doc_id)
         IN  IF ids # {}
             THEN IF env.fault = "delete"
                  THEN [raised |-> TRUE, found |-> FALSE,
                        collection |->
                            collection_delete(coll, ids \cap env.removed)]
                  ELSE [raised |-> FALSE, found |-> TRUE,
                        collection |->
                            collection_delete(coll,
                                              {CHOOSE i \in ids : TRUE})]
             ELSE [raised |-> FALSE, collection |-> coll, found |-> FALSE]

\* VectorStore.delete_document.  env.fault = "get": collection.get fails;
\* env.fault = "delete": collection.delete fails, after it has removed
\* those of the ids that are in env.removed.
VectorStore_delete_document(coll, doc_id, env) ==
    IF env.fault = "get"
    THEN [raised |-> TRUE, collection |-> coll, found |-> FALSE]
    ELSE LET ids == collection_get_ids(coll, doc_id)
         IN  IF ids # {}
             THEN IF env.fault = "delete"
                  THEN [raised |-> TRUE, found |-> FALSE,
                        collection |->
                            collection_delete(coll, ids \cap env.removed)]
                  ELSE [raised |-> FALSE, found |-> TRUE,
                        collection |-> collection_delete(coll, ids)]
             ELSE [raised |-> FALSE, collection |-> coll, found |-> FALSE]

\* VectorStore.get_document_count
get_document_count(coll) == Cardinality(coll)

\* the orders in which the nearest-neighbour engine can rank the entries
\* for query vector q: nearest first, entries equally near in any order
RECURSIVE Rankings(_, _)
Rankings(coll, q) ==
    IF coll = {} THEN {<<>>}
    ELSE LET nearest == { e \in coll : \A x \in coll :
                            CosineDistance(q, e.embedding)
                              <= CosineDistance(q, x.embedding) }
         IN  UNION { { <<e>> \o r : r \in Rankings(coll \ {e}, q) } :
                     e \in nearest }

\* collection.query(query_embeddings=[q], n_results=n): the n nearest
\* entries with their distances, in the engine's ranking
collection_query(ranking, q, n) ==
    [i \in 1 .. Min(n, Len(ranking)) |->
       [id |-> ranking[i].id, document |-> ranking[i].document,
        metadata |-> ranking[i].metadata,
        distance |-> CosineDistance(q, ranking[i].embedding)]]

\* VectorStore.search without the min_score filter
search_unfiltered(ranking, query_embedding, top_k, min_score) ==
    LET results == collection_query(ranking, query_embedding, top_k)
    IN  [i \in 1 .. Len(results) |->
           [id |-> results[i].id,
            document |-> results[i].document,
            metadata |-> results[i].metadata,
            score |-> 10 - results[i].distance]]

\* VectorStore.search
search(ranking, query_embedding, top_k, min_score) ==
    LET results == collection_query(ranking, query_embedding, top_k)
        scored == [i \in 1 .. Len(results) |->
                     [id |-> results[i].id,
                      document |-> results[i].document,
                      metadata |-> results[i].metadata,
                      score |-> 10 - results[i].distance]]
    IN  SelectSeq(scored, LAMBDA r : r.score >= min_score)

\* ---------------------------------------------------------------- engine
\* values uuid.uuid4() truncated to 8 characters can take
DocIds == {"1f0e9a3c", "c47b21d8"}

\* the registry without its entry for doc_id: del self.documents[doc_id]
Without(docs, doc_id) == [d \in DOMAIN docs \ {doc_id} |-> docs[d]]

\* the registry with doc stored under doc_id: self.documents[doc_id] = doc
With(docs, doc_id, doc) ==
    [d \in DOMAIN docs \cup {doc_id} |-> IF d = doc_id THEN doc ELSE docs[d]]

\* add_document without the early return for a document without chunks
add_document_no_empty_return(docs, coll, doc_id, content, filename, env) ==
    LET ex == extract_text(content, filename, env)
        chunks == chunk_text(ex.text)
        none == [id |-> doc_id, filename |-> filename, chunks_created |-> 0,
                 message |-> "none"]
        vs == VectorStore_add_document(coll, doc_id, chunks,
                  embed_batch(chunks),
                  [filename |-> filename, doc_type |-> ex.doc_type], env)
    IN  IF ex.raised
        THEN [raised |-> TRUE, error |-> ex.error, text |-> <<>>,
              documents |-> docs, collection |-> coll, response |-> none]
        ELSE IF env.fault = "embed"
        THEN [raised |-> TRUE, error |-> "EmbeddingFailure",
              text |-> ex.text,
              documents |-> docs, collection |-> coll, response |-> none]
        ELSE IF vs.raised
        THEN [raised |-> TRUE, error |-> "IndexFailure", text |-> ex.text,
              documents |-> docs, collection |-> vs.collection,
              response |-> none]
        ELSE [raised |-> FALSE, error |-> "none", text |-> ex.text,
              documents |-> With(docs, doc_id,
                                 [id |-> doc_id, filename |-> filename,
                                  doc_type |-> ex.doc_type,
                                  content |-> ex.text, chunks |-> chunks]),
              collection |-> vs.collection,
              response |-> [id |-> doc_id, filename |-> filename,
                            chunks_created |-> Len(chunks),
                            message |-> "Document indexed successfully"]]

\* RAGEngine.add_document.  env says which collaborator fails in this call:
\* "parser", "embed" (the embedding model), "add" (the collection), "none".
add_document(docs, coll, doc_id, content, filename, env) ==
    LET ex == extract_text(content, filename, env)
        chunks == chunk_text(ex.text)
        none == [id |-> doc_id, filename |-> filename, chunks_created |-> 0,
                 message |-> "none"]
        vs == VectorStore_add_document(coll, doc_id, chunks,
                  embed_batch(chunks),
                  [filename |-> filename, doc_type |-> ex.doc_type], env)
    IN  IF ex.raised
        THEN [raised |-> TRUE, error |-> ex.error, text |-> <<>>,
              documents |-> docs, collection |-> coll, response |-> none]
        ELSE IF chunks = <<>>
        THEN [raised |-> FALSE, error |-> "none", text |-> ex.text,
              documents |-> docs, collection |-> coll,
              response |-> [id |-> doc_id, filename |-> filename,
                            chunks_created |-> 0,
                            message |-> "No content could be extracted from document"]]
        ELSE IF env.fault = "embed"
        THEN [raised |-> TRUE, error |-> "EmbeddingFailure",
              text |-> ex.text,
              documents |-> docs, collection |-> coll, response |-> none]
        ELSE IF vs.raised
        THEN [raised |-> TRUE, error |-> "IndexFailure", text |-> ex.text,
              documents |-> docs, collection |-> vs.collection,
              response |-> none]
        ELSE [raised |-> FALSE, error |-> "none", text |-> ex.text,
              documents |-> With(docs, doc_id,
                                 [id |-> doc_id, filename |-> filename,
                                  doc_type |-> ex.doc_type,
                                  content |-> ex.text, chunks |-> chunks]),
              collection |-> vs.collection,
              response |-> [id |-> doc_id, filename |-> filename,
                            chunks_created |-> Len(chunks),
                            message |-> "Document indexed successfully"]]

\* delete_document removing the registry entry before the index entries
delete_document_registry_first(docs, coll, doc_id, env) ==
    LET vs == VectorStore_delete_document(coll, doc_id, env)
    IN  IF doc_id \in DOMAIN docs
        THEN [raised |-> vs.raised,
              error |-> IF vs.raised THEN "IndexFailure" ELSE "none",
              result |-> ~vs.raised,
              documents |-> Without(docs, doc_id),
              collection |-> vs.collection]
        ELSE [raised |-> FALSE, error |-> "none", result |-> FALSE,
              documents |-> docs, collection |-> coll]

\* delete_document answering True for an id it does not know
delete_document_always_true(docs, coll, doc_id, env) ==
    LET vs == VectorStore_delete_document(coll, doc_id, env)
    IN  IF doc_id \in DOMAIN docs /\ vs.raised
        THEN [raised |-> TRUE, error |-> "IndexFailure", result |-> FALSE,
              documents |-> docs, collection |-> vs.collection]
        ELSE [raised |-> FALSE, error |-> "none", result |-> TRUE,
              documents |-> Without(docs, doc_id),
              collection |-> IF doc_id \in DOMAIN docs THEN vs.collection
                                                       ELSE coll]

\* RAGEngine.delete_document.  env: "get" or "delete" (the collection
\* fails), "none".
delete_document(docs, coll, doc_id, env) ==
    LET vs == VectorStore_delete_document(coll, doc_id, env)
    IN  IF doc_id \in DOMAIN docs
        THEN IF vs.raised
             THEN [raised |-> TRUE, error |-> "IndexFailure",
                   result |-> FALSE,
                   documents |-> docs, collection |-> vs.collection]
             ELSE [raised |-> FALSE, error |-> "none", result |-> TRUE,
                   documents |-> Without(docs, doc_id),
                   collection |-> vs.collection]
        ELSE [raised |-> FALSE, error |-> "none", result |-> FALSE,
              documents |-> docs, collection |-> coll]

\* str.lower() of a text
LowerText(s) == [i \in 1 .. Len(s) |-> Lower(s[i])]

\* set(s.split()): the maximal runs of non-space characters; cur is the
\* word being read
RECURSIVE WordsFrom(_, _)
WordsFrom(s, cur) ==
    IF s = <<>> THEN IF cur = <<>> THEN {} ELSE {cur}
    ELSE IF IsSpace(Head(s))
         THEN (IF cur = <<>> THEN {} ELSE {cur}) \cup WordsFrom(Tail(s), <<>>)
         ELSE WordsFrom(Tail(s), Append(cur, Head(s)))

WordSet(s) == WordsFrom(s, <<>>)

\* s.split('.'): cur is the piece being read
RECURSIVE PeriodSplitFrom(_, _)
PeriodSplitFrom(s, cur) ==
    IF s = <<>> THEN <<cur>>
    ELSE IF Head(s) = "."
         THEN <<cur>> \o PeriodSplitFrom(Tail(s), <<>>)
         ELSE PeriodSplitFrom(Tail(s), Append(cur, Head(s)))

SplitOnPeriod(s) == PeriodSplitFrom(s, <<>>)

\* '. '.join(parts)
RECURSIVE JoinPeriod(_)
JoinPeriod(parts) ==
    IF parts = <<>> THEN <<>>
    ELSE IF Len(parts) = 1 THEN parts[1]
    ELSE parts[1] \o <<".", " ">> \o JoinPeriod(Tail(parts))

\* the for loop of _synthesize_answer: the stripped, non-empty sentences
\* that share a word with the query
RECURSIVE RelevantSentences(_, _)
RelevantSentences(sentences, query_words) ==
    IF sentences = <<>> THEN <<>>
    ELSE LET sentence == Strip(Head(sentences))
             sentence_words == WordSet(LowerText(sentence))
             rest == RelevantSentences(Tail(sentences), query_words)
         IN  IF sentence = <<>> THEN rest
             ELSE IF query_words \cap sentence_words # {}
                  THEN <<sentence>> \o rest
                  ELSE rest

\* the first n elements, s[:n]
Prefix(s, n) == SubSeq(s, 1, Min(n, Len(s)))

\* a filename as text: its parts with the dots between them
RECURSIVE DottedName(_)
DottedName(filename) ==
    IF filename = <<>> THEN <<>>
    ELSE IF Len(filename) = 1 THEN <<filename[1]>>
    ELSE <<filename[1], ".">> \o DottedName(Tail(filename))

\* f"\n\n(Source: {best_result.filename})"
source_note(filename) ==
    <<"\n", "\n", "(Source: ">> \o DottedName(filename) \o <<")">>

NoInformation == <<"No relevant information found in the documents.">>

\* variant: the fixed answer is given the source of nothing
synthesize_answer_always_sourced(query_text, results) ==
    IF results = <<>> THEN NoInformation \o source_note(<<>>)
    ELSE LET best_result == results[1]
             sentences == SplitOnPeriod(best_result.chunk)
             relevant_sentences ==
                 RelevantSentences(sentences, WordSet(LowerText(query_text)))
             fallback == Strip(JoinPeriod(Prefix(sentences, 2)))
         IN  (IF relevant_sentences # <<>>
              THEN JoinPeriod(Prefix(relevant_sentences, 3)) \o <<".">>
              ELSE IF fallback # <<>> /\ fallback[Len(fallback)] # "."
                   THEN Append(fallback, ".")
                   ELSE fallback)
             \o source_note(best_result.filename)

\* RAGEngine._synthesize_answer
synthesize_answer(query_text, results) ==
    IF results = <<>> THEN NoInformation
    ELSE LET best_result == results[1]
             sentences == SplitOnPeriod(best_result.chunk)
             relevant_sentences ==
                 RelevantSentences(sentences, WordSet(LowerText(query_text)))
             fallback == Strip(JoinPeriod(Prefix(sentences, 2)))
         IN  (IF relevant_sentences # <<>>
              THEN JoinPeriod(Prefix(relevant_sentences, 3)) \o <<".">>
              ELSE IF fallback # <<>> /\ fallback[Len(fallback)] # "."
                   THEN Append(fallback, ".")
                   ELSE fallback)
             \o source_note(best_result.filename)

\* RAGEngine.get_stats; loaded: whether the embedding model is in memory
get_stats(docs, coll, loaded) ==
    [documents_count |-> Cardinality(DOMAIN docs),
     total_chunks |-> get_document_count(coll),
     embeddings_loaded |-> loaded]

\* the SearchResult list RAGEngine.query builds from the raw results
format_results(raw_results) ==
    [i \in 1 .. Len(raw_results) |->
        [document_id |-> raw_results[i].metadata.document_id,
         filename |-> raw_results[i].metadata.filename,
         chunk |-> raw_results[i].document,
         score |-> raw_results[i].score,
         metadata |-> raw_results[i].metadata]]

\* RAGEngine.query.  env: "embed" (the embedding model fails) or "none",
\* and the engine's ranking of the collection.  collection.query refuses a
\* top_k below 1.
query(request, env) ==
    LET raw_results == search(env.ranking, embed_text(request.query),
                              request.top_k, request.min_score)
    IN  IF env.fault = "embed"
        THEN [raised |-> TRUE, error |-> "EmbeddingFailure",
              raw_results |-> <<>>, results |-> <<>>, answer |-> <<>>]
        ELSE IF request.top_k < 1
        THEN [raised |-> TRUE, error |-> "IndexFailure",
              raw_results |-> <<>>, results |-> <<>>, answer |-> <<>>]
        ELSE [raised |-> FALSE, error |-> "none",
              raw_results |-> raw_results,
              results |-> format_results(raw_results),
              answer |-> synthesize_answer(request.query,
                                           format_results(raw_results))]

\* ----------------------------------------------------------------- state
\* documents: RAGEngine.documents; collection: the entries of the Chroma
\* collection; last: the latest call, its arguments and its outcome
VARIABLES documents, collection, last

vars == <<documents, collection, last>>

\* the contents handed to add_document
Texts ==
    { <<" ", "\n">>,
      <<"a", ".">>,
      <<"W", ".", " ", "\n", "W", "!">> }

Queries == { <<"a", ".">>, <<"a", "!">>, <<"a", "?">> }

MinScores == { 0, 3 }

NoCall ==
    [op |-> "none", doc_id |-> "", filename |-> <<>>, text |-> <<>>,
     raised |-> FALSE, error |-> "none", result |-> FALSE,
     chunks_created |-> 0, count_before |-> 0,
     query_embedding |-> 0, top_k |-> 0, min_score |-> 0,
     raw_results |-> <<>>, results |-> <<>>, answer |-> <<>>,
     stats |-> [documents_count |-> 0, total_chunks |-> 0,
                embeddings_loaded |-> FALSE]]

\* RAGEngine.__init__.  The sample documents that initialize_with_samples
\* loads at startup are add_document calls of text files (AddDocument).
Init ==
    /\ documents = [d \in {} |-> 0]
    /\ collection = {}
    /\ last = NoCall

\* what the collaborators called by add_document(content, filename) can do
AddEnvs(content, filename) ==
    LET parsed == Extension(filename) \in ParsedExtensions
        n == Len(chunk_text(content))
    IN  {[fault |-> "none", k |-> 0]}
        \cup (IF parsed THEN {[fault |-> "parser", k |-> 0]} ELSE {})
        \cup (IF n > 0
              THEN {[fault |-> "embed", k |-> 0]}
                   \cup {[fault |-> "add", k |-> k] : k \in 0 .. n}
              ELSE {})

\* the call add_document(content, filename) in which uuid4 yields doc_id
\* and the collaborators do env
AddCall(doc_id, content, filename, env) ==
    \E out \in {add_document(documents, collection, doc_id, content,
                             filename, env)} :
        /\ documents' = out.documents
        /\ collection' = out.collection
        /\ last' = [NoCall EXCEPT
               !.op = "add_document", !.doc_id = doc_id,
               !.filename = filename, !.text = out.text,
               !.raised = out.raised, !.error = out.error,
               !.chunks_created = out.response.chunks_created,
               !.count_before = get_document_count(collection)]

\* add_document of a text file
AddDocument ==
    \E doc_id \in DocIds, content \in Texts :
      \E env \in AddEnvs(content, <<"notes", "txt">>) :
        AddCall(doc_id, content, <<"notes", "txt">>, env)

\* add_document of a file of any name
AddAnyFormat ==
    \E content \in Texts, filename \in Filenames :
      \E env \in AddEnvs(content, filename) :
        AddCall("1f0e9a3c", content, filename, env)

\* what the collection can do in delete_document(doc_id)
DeleteEnvs(doc_id) ==
    IF doc_id \in DOMAIN documents
    THEN {[fault |-> "none", removed |-> {}],
          [fault |-> "get", removed |-> {}]}
         \cup {[fault |-> "delete", removed |-> ids] :
                 ids \in SUBSET collection_get_ids(collection, doc_id)}
    ELSE {[fault |-> "none", removed |-> {}]}

DeleteDocument ==
    \E doc_id \in DocIds :
      \E env \in DeleteEnvs(doc_id) :
        \E out \in {delete_document(documents, collection, doc_id, env)} :
            /\ documents' = out.documents
            /\ collection' = out.collection
            /\ last' = [NoCall EXCEPT
                   !.op = "delete_document", !.doc_id = doc_id,
                   !.raised = out.raised, !.error = out.error,
                   !.result = out.result,
                   !.count_before = get_document_count(collection)]

\* what the collaborators called by query(q) can do
QueryEnvs(q) ==
    {[fault |-> "embed", ranking |-> <<>>]}
    \cup {[fault |-> "none", ranking |-> r] :
            r \in Rankings(collection, embed_text(q))}

Query ==
    \E q \in Queries :
      \E env \in QueryEnvs(q), top_k \in 0 .. MaxTopK, min_score \in MinScores :
        \E out \in {query([query |-> q, top_k |-> top_k,
                          min_score |-> min_score], env)} :
            /\ UNCHANGED <<documents, collection>>
            /\ last' = [NoCall EXCEPT
                   !.op = "query", !.raised = out.raised,
                   !.error = out.error,
                   !.query_embedding = embed_text(q),
                   !.top_k = top_k, !.min_score = min_score,
                   !.raw_results = out.raw_results,
                   !.results = out.results,
                   !.answer = out.answer,
                   !.count_before = get_document_count(collection)]

Next == AddDocument \/ DeleteDocument \/ Query

Spec == Init /\ [][Next]_vars

\* the engine fed files of every kind
FormatNext == AddAnyFormat \/ DeleteDocument \/ Query

FormatSpec == Init /\ [][FormatNext]_vars

\* ---------------------------------------------------------------- stats
\* The engine under calls that complete: every add_document and
\* delete_document returns, and get_stats is read in between.
AddCompleted ==
    \E doc_id \in DocIds, content \in Texts :
      \E env \in AddEnvs(content, <<"notes", "txt">>) :
        /\ AddCall(doc_id, content, <<"notes", "txt">>, env)
        /\ ~last'.raised

DeleteCompleted ==
    \E doc_id \in DocIds :
      \E out \in {delete_document(documents, collection, doc_id,
                                  [fault |-> "none", removed |-> {}])} :
        /\ ~out.raised
        /\ documents' = out.documents
        /\ collection' = out.collection
        /\ last' = [NoCall EXCEPT
               !.op = "delete_document", !.doc_id = doc_id,
               !.result = out.result,
               !.count_before = get_document_count(collection)]

GetStats ==
    \E loaded \in BOOLEAN :
        /\ last' = [NoCall EXCEPT
               !.op = "get_stats",
               !.stats = get_stats(documents, collection, loaded),
               !.count_before = get_document_count(collection)]
        /\ UNCHANGED <<documents, collection>>

StatsNext == AddCompleted \/ DeleteCompleted \/ GetStats

StatsSpec == Init /\ [][StatsNext]_vars

\* -------------------------------------------------------------- chunker
\* The chunker on its own: DocumentProcessor(chunk_size, chunk_overlap)
\* with 0 < chunk_overlap < chunk_size, chunking one text.
ChunkAlphabet == {"a", ".", " "}

ChunkTexts == UNION { [1 .. n -> ChunkAlphabet] : n \in 0 .. MaxTextLen }

ChunkCalls ==
    { [op |-> "chunk_text", text |-> t, chunk_size |-> size,
       chunk_overlap |-> overlap, done |-> FALSE, chunks |-> <<>>] :
        t \in ChunkTexts,
        size \in 2 .. MaxChunkSize,
        overlap \in 1 .. MaxChunkSize - 1 }

\* a processor is built and handed a text
ChunkInit ==
    /\ documents = [d \in {} |-> 0]
    /\ collection = {}
    /\ last \in { c \in ChunkCalls : c.chunk_overlap < c.chunk_size }

\* DocumentProcessor.chunk_text(text)
ChunkText ==
    /\ last.op = "chunk_text"
    /\ ~last.done
    /\ last' = [last EXCEPT
           !.done = TRUE,
           !.chunks = chunk_text_sized(last.text, last.chunk_size,
                                       last.chunk_overlap)]
    /\ UNCHANGED <<documents, collection>>

ChunkNext == ChunkText

ChunkSpec == ChunkInit /\ [][ChunkNext]_vars

\* ------------------------------------------------------- answer synthesis
\* _synthesize_answer on its own, over the results RAGEngine.query can hand
\* it: chunks are what the chunker emits (non-empty, whitespace-normalised).
Pieces ==
    { <<>>, <<"a">>, <<"A">>, <<"b">>, <<"a", " ", "b">>, <<"b", "?">> }

PieceLists == UNION { [1 .. n -> Pieces] : n \in 1 .. MaxSentences }

AnswerChunks ==
    { c \in { JoinPeriod(ps) : ps \in PieceLists }
             \cup { JoinPeriod(ps) \o <<".">> : ps \in PieceLists } :
        c # <<>> /\ Normalize(c) = c }

AnswerQueries == { <<"a">>, <<"A", " ", "c">>, <<"c">>, <<"b", "?">> }

\* a SearchResult of the given chunk, as RAGEngine.query builds it
SearchResultOf(doc_id, filename, chunk) ==
    [document_id |-> doc_id, filename |-> filename, chunk |-> chunk,
     score |-> 10,
     metadata |-> [filename |-> filename, doc_type |-> "txt",
                   chunk_index |-> 0, document_id |-> doc_id]]

\* ranked results: none, one, or one followed by a second document's chunk
AnswerResults ==
    {<<>>}
    \cup { <<SearchResultOf("1f0e9a3c", <<"notes", "txt">>, c)>> :
             c \in AnswerChunks }
    \cup { <<SearchResultOf("1f0e9a3c", <<"notes", "txt">>, c),
             SearchResultOf("c47b21d8", <<"Page", "HTM">>, <<"a", ".">>)>> :
             c \in AnswerChunks }

AnswerInit ==
    /\ documents = [d \in {} |-> 0]
    /\ collection = {}
    /\ last \in { [op |-> "synthesize_answer", query |-> q, results |-> r,
                    done |-> FALSE, answer |-> <<>>] :
                     q \in AnswerQueries, r \in AnswerResults }

\* RAGEngine._synthesize_answer(query, results)
SynthesizeAnswer ==
    /\ last.op = "synthesize_answer"
    /\ ~last.done
    /\ last' = [last EXCEPT
           !.done = TRUE,
           !.answer = synthesize_answer(last.query, last.results)]
    /\ UNCHANGED <<documents, collection>>

AnswerNext == SynthesizeAnswer

AnswerSpec == AnswerInit /\ [][AnswerNext]_vars

\* ---------------------------------------------------------------- claims
\* the entries of the index that carry document id d
EntriesOf(coll, d) == { e \in coll : e.metadata.document_id = d }

\* every chunk of the registered document d is an entry of the index
Indexed(docs, coll, d) ==
    \A i \in 1 .. Len(docs[d].chunks) :
        \E e \in coll : e.id = <<d, i - 1>> /\ e.document = docs[d].chunks[i]

\* C1: in every reachable state every entry of the index carries the id of
\* a registered document (no orphaned chunks).
NoOrphanedChunks ==
    \A e \in collection : e.metadata.document_id \in DOMAIN documents

FailedDeleteKeepsRegistry ==
    [][(/\ last'.op = "delete_document"
        /\ last'.raised
        /\ last'.doc_id \in DOMAIN documents) => documents' = documents]_vars

\* C3 happens: a delete of a registered document failed after the index
\* lost entries, and the document is still registered.
FailedDeleteWitness ==
    /\ last.op = "delete_document"
    /\ last.raised
    /\ last.doc_id \in DOMAIN documents
    /\ get_document_count(collection) < last.count_before

\* C4: an add_document that fails in the embedding or the index step leaves
\* the registry and the index exactly as they were.
FailedAddRetainsNothing ==
    [][(/\ last'.op = "add_document"
        /\ last'.raised
        /\ last'.error \in {"EmbeddingFailure", "IndexFailure"})
       => (documents' = documents /\ collection' = collection)]_vars

\* C5: a completed index delete of document id d removes exactly the
\* entries carrying d, count() drops by the number of those entries, and
\* a second delete of d finds nothing.
IndexDeleteExact ==
    [][(/\ last'.op = "delete_document"
        /\ ~last'.raised
        /\ last'.result)
       => LET d == last'.doc_id
          IN  /\ collection' = collection \ EntriesOf(collection, d)
              /\ get_document_count(collection')
                   = get_document_count(collection)
                       - Cardinality(EntriesOf(collection, d))
              /\ ~VectorStore_delete_document(collection', d,
                      [fault |-> "none", removed |-> {}]).found]_vars

\* C5 happens: a delete removed the two entries of one document and left
\* the entries of another in the index.
IndexDeleteWitness ==
    /\ last.op = "delete_document"
    /\ last.result
    /\ collection # {}
    /\ get_document_count(collection) = last.count_before - 2

\* C6: an add_document that creates chunks registers the document under an
\* id no registered document has.
AddUsesFreshId ==
    [][(/\ last'.op = "add_document"
        /\ ~last'.raised
        /\ last'.chunks_created > 0)
       => last'.doc_id \notin DOMAIN documents]_vars

\* C7: add_document of content whose extracted text makes no chunk returns
\* chunks_created = 0 and leaves the registry and the index unchanged.
EmptyContentChangesNothing ==
    [][(/\ last'.op = "add_document"
        /\ last'.error \notin {"UnsupportedFormat", "ExtractionFailure"}
        /\ chunk_text(last'.text) = <<>>)
       => /\ ~last'.raised
          /\ last'.chunks_created = 0
          /\ documents' = documents
          /\ collection' = collection]_vars

\* C7 happens: whitespace-only content was added to an engine that holds
\* a document, and the call returned chunks_created = 0.
EmptyContentWitness ==
    /\ last.op = "add_document"
    /\ ~last.raised
    /\ last.text # <<>>
    /\ chunk_text(last.text) = <<>>
    /\ last.chunks_created = 0
    /\ DOMAIN documents # {}
    /\ collection # {}

\* C8: a delete_document(id) that returns, returns true exactly when id was
\* registered; then nothing of id is left in the registry or the index;
\* when it returns false nothing changed; and the registry entry never goes
\* while entries of id stay in the index (index first).
DeleteDocumentContract ==
    [][last'.op = "delete_document"
       => LET d == last'.doc_id
          IN  /\ ~last'.raised => (last'.result <=> d \in DOMAIN documents)
              /\ (~last'.raised /\ last'.result)
                   => /\ d \notin DOMAIN documents'
                      /\ EntriesOf(collection', d) = {}
              /\ (~last'.raised /\ ~last'.result)
                   => /\ documents' = documents
                      /\ collection' = collection
              /\ (d \in DOMAIN documents /\ d \notin DOMAIN documents')
                   => EntriesOf(collection', d) = {}]_vars

\* C8 happens: a delete returned true while another document stayed
\* registered and indexed.
DeleteDocumentWitness ==
    /\ last.op = "delete_document"
    /\ ~last.raised
    /\ last.result
    /\ last.count_before > get_document_count(collection)
    /\ DOMAIN documents # {}
    /\ last.doc_id \notin DOMAIN documents

\* C9: search returns at most top_k entries, each with score = 1 - distance
\* (in tenths: 10 - distance) and score >= min_score, in order of
\* non-increasing score.
SearchContract ==
    (last.op = "query" /\ ~last.raised)
    => LET r == last.raw_results
       IN  /\ Len(r) <= last.top_k
           /\ \A i \in 1 .. Len(r) :
                /\ \E e \in collection :
                     /\ e.id = r[i].id
                     /\ r[i].score
                          = 10 - CosineDistance(last.query_embedding,
                                                e.embedding)
                /\ r[i].score >= last.min_score
           /\ \A i, j \in 1 .. Len(r) : i < j => r[i].score >= r[j].score

\* C9 happens: a query over more entries than top_k returned two entries of
\* different score.
SearchWitness ==
    /\ last.op = "query"
    /\ ~last.raised
    /\ Len(last.raw_results) = 2
    /\ last.raw_results[1].score > last.raw_results[2].score
    /\ get_document_count(collection) > last.top_k

\* C10 as stated: add_document fails with UnsupportedFormat for every
\* filename whose extension is not pdf, docx, txt or html, changing nothing.
UnsupportedOutsideFour ==
    [][(/\ last'.op = "add_document"
        /\ Extension(last'.filename) \notin {"pdf", "docx", "txt", "html"})
       => /\ last'.raised
          /\ last'.error = "UnsupportedFormat"
          /\ documents' = documents
          /\ collection' = collection]_vars

\* C10 amended: add_document fails with UnsupportedFormat for every
\* filename whose lower-cased extension is not pdf, docx, txt, html or htm,
\* changing neither the registry nor the index.
UnsupportedOutsideFive ==
    [][(/\ last'.op = "add_document"
        /\ Extension(last'.filename)
             \notin {"pdf", "docx", "txt", "html", "htm"})
       => /\ last'.raised
          /\ last'.error = "UnsupportedFormat"
          /\ documents' = documents
          /\ collection' = collection]_vars

\* C10 happens: a file of unsupported extension was refused by an engine
\* that holds a document.
UnsupportedWitness ==
    /\ last.op = "add_document"
    /\ last.raised
    /\ last.error = "UnsupportedFormat"
    /\ Extension(last.filename) = "exe"
    /\ DOMAIN documents # {}

\* the sentence-like units of the text a chunker call was handed
UnitsOf(call) == SplitSentences(Normalize(call.text))

\* a finished chunker call on a text longer than chunk_size
LongTextChunked(call) ==
    /\ call.op = "chunk_text"
    /\ call.done
    /\ TextLen(Normalize(call.text)) > call.chunk_size

\* C11: no emitted chunk is longer than chunk_size, unless it contains a
\* unit that is itself longer than chunk_size.
ChunksWithinSize ==
    (last.op = "chunk_text" /\ last.done)
    => \A k \in 1 .. Len(last.chunks) :
         \/ TextLen(last.chunks[k]) <= last.chunk_size
         \/ \E u \in 1 .. Len(SplitSentences(last.chunks[k])) :
              TextLen(SplitSentences(last.chunks[k])[u]) > last.chunk_size

\* chunks[k..] read as runs units[a..b] of whole units in source order: each
\* run starts no later than the first unit not yet emitted (next), ends at
\* or after it, the units it repeats from the chunk before have a joined
\* length of at most carry, and the last run ends at the last unit.
RECURSIVE RunsOfUnits(_, _, _, _, _)
RunsOfUnits(units, chunks, k, next, carry) ==
    IF k > Len(chunks)
    THEN next = Len(units) + 1
    ELSE \E a \in 1 .. next : \E b \in next .. Len(units) :
           /\ chunks[k] = Join(SubSeq(units, a, b))
           /\ (k = 1 => a = 1)
           /\ TextLen(Join(SubSeq(units, a, next - 1))) <= carry
           /\ RunsOfUnits(units, chunks, k + 1, b + 1, carry)

\* C12: for a text whose normalized length exceeds chunk_size, every unit
\* of the normalized text appears whole and in source order in the chunks:
\* the chunks are runs of consecutive whole units that leave no unit out.
EveryUnitEmitted ==
    LongTextChunked(last)
    => RunsOfUnits(UnitsOf(last), last.chunks, 1, 1, TextLen(last.text))

\* a long text with a unit of its own longer than chunk_size was chunked
\* into several chunks, one flush having popped units from the buffer
EveryUnitWitness ==
    /\ LongTextChunked(last)
    /\ Len(last.chunks) >= 3
    /\ \E u \in 1 .. Len(UnitsOf(last)) :
         TextLen(UnitsOf(last)[u]) > last.chunk_size
    /\ \E k \in 1 .. Len(last.chunks) - 1 :
         /\ Len(SplitSentences(last.chunks[k])) >= 2
         /\ \/ Len(last.chunks[k + 1]) < Len(last.chunks[k])
            \/ SubSeq(last.chunks[k + 1], 1, Len(last.chunks[k]))
                 # last.chunks[k]

\* chunks[k..] read as runs units[a..b] where the chunk before is the run
\* units[first..final]: each run starts inside the chunk before or right
\* after it, so that what it repeats, units[a..final], is a suffix of the
\* chunk before made of whole units, of joined length at most overlap.
RECURSIVE CarriedRuns(_, _, _, _, _, _)
CarriedRuns(units, chunks, k, first, final, overlap) ==
    IF k > Len(chunks)
    THEN final = Len(units)
    ELSE \E a \in first .. final + 1 : \E b \in final + 1 .. Len(units) :
           /\ chunks[k] = Join(SubSeq(units, a, b))
           /\ TextLen(Join(SubSeq(units, a, final))) <= overlap
           /\ CarriedRuns(units, chunks, k + 1, a, b, overlap)

\* C13: for every pair of consecutive chunks, the units carried over from
\* the earlier chunk into the later one are a run of whole units forming a
\* suffix of the earlier chunk, of joined length at most chunk_overlap.
CarriedOverlapBounded ==
    (last.op = "chunk_text" /\ last.done /\ Len(last.chunks) >= 2)
    => CarriedRuns(UnitsOf(last), last.chunks, 1, 1, 0, last.chunk_overlap)

\* three or more chunks were emitted and some chunk repeats units of the
\* chunk before it: the chunks cannot be read as runs that carry nothing
CarriedOverlapWitness ==
    /\ last.op = "chunk_text" /\ last.done
    /\ Len(last.chunks) >= 3
    /\ ~CarriedRuns(UnitsOf(last), last.chunks, 1, 1, 0, 0)

\* no entry of the index scores min_score or more against the query
NothingScores(coll, query_embedding, min_score) ==
    \A e \in coll :
        10 - CosineDistance(query_embedding, e.embedding) < min_score

\* C14: a query (embedded, top_k of 1 or more) for which the index holds no
\* entry with score >= min_score, an empty index included, does not raise:
\* its results are empty, its answer is the fixed "No relevant information
\* found in the documents." and registry and index are unchanged.
EmptyResultIsNoError ==
    [][ ( /\ last'.op = "query"
          /\ last'.error # "EmbeddingFailure"
          /\ last'.top_k >= 1
          /\ NothingScores(collection, last'.query_embedding,
                           last'.min_score) )
        => ( /\ ~last'.raised
             /\ last'.results = <<>>
             /\ last'.answer = NoInformation
             /\ documents' = documents
             /\ collection' = collection ) ]_vars

\* a query over an index that holds entries, none of them scoring
\* min_score, came back with no result and the fixed answer
EmptyResultWitness ==
    /\ last.op = "query"
    /\ ~last.raised
    /\ collection # {}
    /\ NothingScores(collection, last.query_embedding, last.min_score)
    /\ last.results = <<>>
    /\ last.answer = NoInformation

\* the sentences of a chunk: its pieces between periods, trimmed, the
\* empty ones left out
TrimmedSentences(chunk) ==
    LET pieces == SplitOnPeriod(chunk)
    IN  SelectSeq([i \in 1 .. Len(pieces) |-> Strip(pieces[i])],
                  LAMBDA x : x # <<>>)

\* the sentences whose lowercase words meet the query's lowercase words
Qualifying(chunk, query_text) ==
    SelectSeq(TrimmedSentences(chunk),
              LAMBDA x : \E w \in WordSet(LowerText(x)) :
                             w \in WordSet(LowerText(query_text)))

\* the answer without the source note of the given filename
BodyOf(answer, filename) ==
    SubSeq(answer, 1, Len(answer) - Len(source_note(filename)))

\* C15: for non-empty results the answer is a body followed by the source
\* note of the top result's filename; the body is, up to the width of its
\* white space, the first 3 (at most) qualifying sentences of the top
\* result's chunk in their order, joined by ". " and closed by a period, or,
\* when no sentence qualifies, the first two sentences of that chunk joined
\* the same way; the body ends with a period.
AnswerFromTopResult ==
    (last.op = "synthesize_answer" /\ last.done /\ last.results # <<>>)
    => LET top == last.results[1]
           qualifying == Qualifying(top.chunk, last.query)
           expected == IF qualifying # <<>>
                       THEN JoinPeriod(Prefix(qualifying, 3)) \o <<".">>
                       ELSE JoinPeriod(Prefix(TrimmedSentences(top.chunk), 2))
                              \o <<".">>
           body == BodyOf(last.answer, top.filename)
       IN  /\ Len(last.answer) > Len(source_note(top.filename))
           /\ last.answer = body \o source_note(top.filename)
           /\ CollapseSpaces(body) = CollapseSpaces(expected)
           /\ body[Len(body)] = "."

\* the chunks the registry lists for the documents ids
RECURSIVE RegisteredChunks(_, _)
RegisteredChunks(docs, ids) ==
    IF ids = {} THEN 0
    ELSE LET d == CHOOSE x \in ids : TRUE
         IN  Len(docs[d].chunks) + RegisteredChunks(docs, ids \ {d})

\* C16: when every add_document and delete_document so far completed
\* without raising, get_stats reports documents_count = the number of
\* registry entries and total_chunks = the sum of the lengths of the
\* registered documents' chunk lists.
StatsAgreeWithRegistry ==
    last.op = "get_stats"
    => /\ last.stats.documents_count = Cardinality(DOMAIN documents)
       /\ last.stats.total_chunks
            = RegisteredChunks(documents, DOMAIN documents)

====
